---- MODULE Spec2Model ----
(***************************************************************************)
(* Length-prefixed framing of the Modbus forwarder test client             *)
(* (src/src/main.rs): the two codecs (ModbusRequestCodec, ModbusDataCodec) *)
(* and the scripted connection driver (main).                              *)
(*                                                                         *)
(* Bytes are integers 0..255 and buffers are sequences of bytes.  A u64 or *)
(* usize that is read from the wire is kept as three limbs (16 + 24 + 24   *)
(* bits) so that every 64-bit value is represented exactly.                *)
(***************************************************************************)
EXTENDS Integers, Sequences, FiniteSets, TLC

VARIABLES
    ptr_width,  \* pointer width of the build target: 32 or 64 (width of usize)
    codec,      \* which codec pair the framing specifications exercise
    dst,        \* outbound buffer the encoder appends to (BytesMut)
    pos,        \* number of bytes of dst the stream has carried to src
    src,        \* inbound buffer the decoder reads (BytesMut)
    sent,       \* items handed to encode, in order
    recv,       \* items returned by decode, in order
    last,       \* outcome of the most recent decode call
    hist,       \* outcome kinds of the decode calls of a byte-wise feed
    pc,         \* main: 0 while connecting, then the index of the statement
                \* of Program it is at, Len(Program) + 1 once it has left
    flushing,   \* main is inside send(), the frame encoded and not yet written
    outcome,    \* "running", or how main ended: "ok", "err", "panic"
    wire_out,   \* bytes the socket has accepted from the client
    inb,        \* bytes the peer has sent that the client has not read yet
    peer,       \* the peer: frames sent, whether it stopped or closed
    frames,     \* items of the complete frames the peer has sent, in order
    is_readable,\* FramedRead: the buffer may hold a frame
    eof         \* FramedRead: the last read returned 0 bytes

fvars == <<ptr_width, codec, dst, pos, src, sent, recv, last, hist>>
dvars == <<pc, flushing, outcome, wire_out, inb, peer, frames, is_readable, eof>>
vars == <<fvars, dvars>>

(***************************** bounds ***************************************)
MaxFrames == 2      \* frames encoded in one loopback run
MaxWords == 2       \* words in one Data reply
MaxReplies == 4     \* frames, whole or cut short, the peer sends in a session

Addresses == {0, 513}
Quantities == {3, 16}
Words == {0, 65535}

(***************************** integers *************************************)
PREFIX_LEN == 8

Pow24 == 4096 * 4096

\* n as k little-endian bytes (u16/u32/u64::to_le_bytes, bincode fixint)
RECURSIVE to_le_bytes(_, _)
to_le_bytes(n, k) ==
    IF k = 0 THEN <<>> ELSE <<n % 256>> \o to_le_bytes(n \div 256, k - 1)

\* n as k big-endian bytes
RECURSIVE to_be_bytes(_, _)
to_be_bytes(n, k) ==
    IF k = 0 THEN <<>> ELSE Append(to_be_bytes(n \div 256, k - 1), n % 256)

\* u64::from_be_bytes of 8 bytes, as limbs
u64_from_be_bytes(b) ==
    [hi  |-> b[1] * 256 + b[2],
     mid |-> b[3] * 65536 + b[4] * 256 + b[5],
     lo  |-> b[6] * 65536 + b[7] * 256 + b[8]]

\* u64 little-endian (bincode's fixed-width length of a sequence), as limbs
u64_from_le_bytes(b) ==
    [hi  |-> b[8] * 256 + b[7],
     mid |-> b[6] * 65536 + b[5] * 256 + b[4],
     lo  |-> b[3] * 65536 + b[2] * 256 + b[1]]

\* a buffer length (always below 2^48 here) as limbs
usize_of(k) == [hi |-> 0, mid |-> k \div Pow24, lo |-> k % Pow24]

\* variant: the conversion keeps the low ptr_width bits (an `as usize` cast)
usize_try_from_wrapping(n) ==
    IF ptr_width = 64 THEN [ok |-> TRUE, val |-> n]
    ELSE [ok |-> TRUE, val |-> [hi |-> 0, mid |-> n.mid % 256, lo |-> n.lo]]

\* usize::try_from(u64): fails when the value needs more than ptr_width bits
usize_try_from(n) ==
    IF ptr_width = 64 \/ (n.hi = 0 /\ n.mid < 256)
    THEN [ok |-> TRUE, val |-> n]
    ELSE [ok |-> FALSE, val |-> n]

\* 8 + n in usize arithmetic that wraps at 2^ptr_width
usize_add8_wrapping(n) ==
    LET lo == n.lo + 8
        mid == n.mid + lo \div Pow24
        midmod == IF ptr_width = 64 THEN Pow24 ELSE 256
        hi == n.hi + mid \div midmod
    IN [hi  |-> IF ptr_width = 64 THEN hi % 65536 ELSE 0,
        mid |-> mid % midmod,
        lo  |-> lo % Pow24]

\* a < b on limbs
usize_lt(a, b) ==
    \/ a.hi < b.hi
    \/ a.hi = b.hi /\ a.mid < b.mid
    \/ a.hi = b.hi /\ a.mid = b.mid /\ a.lo < b.lo

\* a length that is at most a buffer's length, as a number
usize_val(n) == n.mid * Pow24 + n.lo

(***************************** values ***************************************)
ReadVariants ==
    {"ReadCoils", "ReadDiscreteInputs", "ReadInputRegisters", "ReadHoldingRegisters"}

ReadRequest(v, a, c) == [t |-> "Request", variant |-> v, address |-> a, count |-> c]
Disconnect == [t |-> "Request", variant |-> "Disconnect"]
Data(ws) == [t |-> "Data", words |-> ws]
NoItem == [t |-> "NoItem"]

Requests ==
    {ReadRequest(v, a, c) : v \in ReadVariants, a \in Addresses, c \in Quantities}
        \cup {Disconnect}

WordSeqs == UNION {[1..n -> Words] : n \in 0..MaxWords}

DataItems == {Data(ws) : ws \in WordSeqs}

ItemsOf(c) == IF c = "Request" THEN Requests ELSE DataItems

\* the items drawn for the frames that follow the first one of a run
MoreItemsOf(c) ==
    IF c = "Request"
    THEN {ReadRequest("ReadHoldingRegisters", 0, 16), ReadRequest("ReadCoils", 513, 3),
          Disconnect}
    ELSE {Data(<<>>), Data(<<258>>), Data(<<0, 65535>>)}

(***************************** bincode **************************************)
\* Variant indices of tokio_modbus::Request in declaration order; the enum's
\* other variants (writes, Custom) are never constructed by the program and
\* are not modelled, and no input below carries their indices.
VariantIndex ==
    [ReadCoils |-> 0, ReadDiscreteInputs |-> 1, ReadInputRegisters |-> 4,
     ReadHoldingRegisters |-> 5, Disconnect |-> 11]

VariantOf(i) == CHOOSE v \in DOMAIN VariantIndex : VariantIndex[v] = i

\* bincode::serialize(&Request): u32 LE variant index, then the u16 LE fields
bincode_serialize_request(item) ==
    IF item.variant = "Disconnect"
    THEN to_le_bytes(VariantIndex[item.variant], 4)
    ELSE to_le_bytes(VariantIndex[item.variant], 4)
            \o to_le_bytes(item.address, 2) \o to_le_bytes(item.count, 2)

\* bincode::serialize(&Vec<u16>): u64 LE element count, then each word u16 LE
RECURSIVE words_to_bytes(_)
words_to_bytes(ws) ==
    IF ws = <<>> THEN <<>>
    ELSE to_le_bytes(Head(ws), 2) \o words_to_bytes(Tail(ws))

bincode_serialize_words(item) ==
    to_le_bytes(Len(item.words), 8) \o words_to_bytes(item.words)

DeFail == [ok |-> FALSE, item |-> NoItem]

\* bincode::deserialize::<Request>: bytes after the value are ignored
bincode_deserialize_request(bytes) ==
    IF Len(bytes) < 4 THEN DeFail
    ELSE IF bytes[2] # 0 \/ bytes[3] # 0 \/ bytes[4] # 0 THEN DeFail
    ELSE IF \A v \in DOMAIN VariantIndex : VariantIndex[v] # bytes[1] THEN DeFail
    ELSE LET v == VariantOf(bytes[1]) IN
         IF v = "Disconnect" THEN [ok |-> TRUE, item |-> Disconnect]
         ELSE IF Len(bytes) < 8 THEN DeFail
         ELSE [ok |-> TRUE,
               item |-> ReadRequest(v, bytes[5] + 256 * bytes[6],
                                       bytes[7] + 256 * bytes[8])]

\* bincode::deserialize::<Vec<u16>>: bytes after the value are ignored
bincode_deserialize_words(bytes) ==
    IF Len(bytes) < 8 THEN DeFail
    ELSE LET len == usize_try_from(u64_from_le_bytes(SubSeq(bytes, 1, 8))) IN
         IF ~len.ok THEN DeFail
         ELSE IF usize_lt(usize_of((Len(bytes) - 8) \div 2), len.val) THEN DeFail
         ELSE LET n == usize_val(len.val) IN
              [ok |-> TRUE,
               item |-> Data([i \in 1..n |->
                                bytes[8 + 2 * i - 1] + 256 * bytes[8 + 2 * i]])]

(***************************** codecs ***************************************)
DecodeNone(buf) == [kind |-> "None", err |-> "none", item |-> NoItem, rest |-> buf]
DecodeErr(e, buf) == [kind |-> "Err", err |-> e, item |-> NoItem, rest |-> buf]
DecodeSome(it, buf) == [kind |-> "Some", err |-> "none", item |-> it, rest |-> buf]

\* variant: the whole buffer is dropped once a frame has been taken
ModbusRequestCodec_decode_clear(buf) ==
    IF Len(buf) < PREFIX_LEN THEN DecodeNone(buf)
    ELSE LET length == usize_try_from(u64_from_be_bytes(SubSeq(buf, 1, PREFIX_LEN))) IN
         IF ~length.ok THEN DecodeErr("TryFromIntError", buf)
         ELSE IF usize_lt(usize_of(Len(buf) - PREFIX_LEN), length.val) THEN DecodeNone(buf)
         ELSE LET n == usize_val(length.val)
                  request_bytes == SubSeq(buf, PREFIX_LEN + 1, PREFIX_LEN + n)
                  request == bincode_deserialize_request(request_bytes)
              IN IF request.ok THEN DecodeSome(request.item, <<>>)
                 ELSE DecodeErr("bincode", <<>>)

\* variant: the prefix is read little-endian
ModbusRequestCodec_decode_le(buf) ==
    IF Len(buf) < PREFIX_LEN THEN DecodeNone(buf)
    ELSE LET length == usize_try_from(u64_from_le_bytes(SubSeq(buf, 1, PREFIX_LEN))) IN
         IF ~length.ok THEN DecodeErr("TryFromIntError", buf)
         ELSE IF usize_lt(usize_of(Len(buf) - PREFIX_LEN), length.val) THEN DecodeNone(buf)
         ELSE LET n == usize_val(length.val)
                  request_bytes == SubSeq(buf, PREFIX_LEN + 1, PREFIX_LEN + n)
                  rest == SubSeq(buf, PREFIX_LEN + n + 1, Len(buf))
                  request == bincode_deserialize_request(request_bytes)
              IN IF request.ok THEN DecodeSome(request.item, rest)
                 ELSE DecodeErr("bincode", rest)

\* variant: a length that does not fit usize is taken as an incomplete frame
ModbusRequestCodec_decode_lenient(buf) ==
    IF Len(buf) < PREFIX_LEN THEN DecodeNone(buf)
    ELSE LET length == usize_try_from(u64_from_be_bytes(SubSeq(buf, 1, PREFIX_LEN))) IN
         IF ~length.ok THEN DecodeNone(buf)
         ELSE IF usize_lt(usize_of(Len(buf) - PREFIX_LEN), length.val) THEN DecodeNone(buf)
         ELSE LET n == usize_val(length.val)
                  request_bytes == SubSeq(buf, PREFIX_LEN + 1, PREFIX_LEN + n)
                  rest == SubSeq(buf, PREFIX_LEN + n + 1, Len(buf))
                  request == bincode_deserialize_request(request_bytes)
              IN IF request.ok THEN DecodeSome(request.item, rest)
                 ELSE DecodeErr("bincode", rest)

\* variant: the payload is split off without the prefix having been removed
ModbusRequestCodec_decode_noskip(buf) ==
    IF Len(buf) < PREFIX_LEN THEN DecodeNone(buf)
    ELSE LET length == usize_try_from(u64_from_be_bytes(SubSeq(buf, 1, PREFIX_LEN))) IN
         IF ~length.ok THEN DecodeErr("TryFromIntError", buf)
         ELSE IF usize_lt(usize_of(Len(buf) - PREFIX_LEN), length.val) THEN DecodeNone(buf)
         ELSE LET n == usize_val(length.val)
                  request_bytes == SubSeq(buf, 1, n)
                  rest == SubSeq(buf, n + 1, Len(buf))
                  request == bincode_deserialize_request(request_bytes)
              IN IF request.ok THEN DecodeSome(request.item, rest)
                 ELSE DecodeErr("bincode", rest)

\* variant: the payload is deserialized in place and split off only on success
ModbusRequestCodec_decode_peek(buf) ==
    IF Len(buf) < PREFIX_LEN THEN DecodeNone(buf)
    ELSE LET length == usize_try_from(u64_from_be_bytes(SubSeq(buf, 1, PREFIX_LEN))) IN
         IF ~length.ok THEN DecodeErr("TryFromIntError", buf)
         ELSE IF usize_lt(usize_of(Len(buf) - PREFIX_LEN), length.val) THEN DecodeNone(buf)
         ELSE LET n == usize_val(length.val)
                  request_bytes == SubSeq(buf, PREFIX_LEN + 1, PREFIX_LEN + n)
                  rest == SubSeq(buf, PREFIX_LEN + n + 1, Len(buf))
                  request == bincode_deserialize_request(request_bytes)
              IN IF request.ok THEN DecodeSome(request.item, rest)
                 ELSE DecodeErr("bincode", buf)

\* variant: completeness is checked as src.len() < 8 + length, the sum wrapping;
\* a frame taken as complete that is not makes split_to panic
ModbusRequestCodec_decode_sum(buf) ==
    IF Len(buf) < PREFIX_LEN THEN DecodeNone(buf)
    ELSE LET length == usize_try_from(u64_from_be_bytes(SubSeq(buf, 1, PREFIX_LEN))) IN
         IF ~length.ok THEN DecodeErr("TryFromIntError", buf)
         ELSE IF usize_lt(usize_of(Len(buf)), usize_add8_wrapping(length.val)) THEN DecodeNone(buf)
         ELSE IF usize_lt(usize_of(Len(buf) - PREFIX_LEN), length.val) THEN DecodeErr("panic", buf)
         ELSE LET n == usize_val(length.val)
                  request_bytes == SubSeq(buf, PREFIX_LEN + 1, PREFIX_LEN + n)
                  rest == SubSeq(buf, PREFIX_LEN + n + 1, Len(buf))
                  request == bincode_deserialize_request(request_bytes)
              IN IF request.ok THEN DecodeSome(request.item, rest)
                 ELSE DecodeErr("bincode", rest)

\* ModbusRequestCodec::decode
ModbusRequestCodec_decode(buf) ==
    IF Len(buf) < PREFIX_LEN THEN DecodeNone(buf)
    ELSE LET length == usize_try_from(u64_from_be_bytes(SubSeq(buf, 1, PREFIX_LEN))) IN
         IF ~length.ok THEN DecodeErr("TryFromIntError", buf)
         ELSE IF usize_lt(usize_of(Len(buf) - PREFIX_LEN), length.val) THEN DecodeNone(buf)
         ELSE LET n == usize_val(length.val)
                  request_bytes == SubSeq(buf, PREFIX_LEN + 1, PREFIX_LEN + n)
                  rest == SubSeq(buf, PREFIX_LEN + n + 1, Len(buf))
                  request == bincode_deserialize_request(request_bytes)
              IN IF request.ok THEN DecodeSome(request.item, rest)
                 ELSE DecodeErr("bincode", rest)

\* variant: the prefix counts its own 8 bytes
ModbusRequestCodec_encode_total(item, buf) ==
    LET serialized == bincode_serialize_request(item)
        length == Len(serialized) + PREFIX_LEN
    IN buf \o to_be_bytes(length, 8) \o serialized

\* ModbusRequestCodec::encode
ModbusRequestCodec_encode(item, buf) ==
    LET serialized == bincode_serialize_request(item)
        length == Len(serialized)
    IN buf \o to_be_bytes(length, 8) \o serialized

\* variant: the prefix is removed before the frame is known to be complete
ModbusDataCodec_decode_eager(buf) ==
    IF Len(buf) < PREFIX_LEN THEN DecodeNone(buf)
    ELSE LET length == usize_try_from(u64_from_be_bytes(SubSeq(buf, 1, PREFIX_LEN))) IN
         IF ~length.ok THEN DecodeErr("TryFromIntError", buf)
         ELSE IF usize_lt(usize_of(Len(buf) - PREFIX_LEN), length.val) THEN DecodeNone(SubSeq(buf, PREFIX_LEN + 1, Len(buf)))
         ELSE LET n == usize_val(length.val)
                  request_bytes == SubSeq(buf, PREFIX_LEN + 1, PREFIX_LEN + n)
                  rest == SubSeq(buf, PREFIX_LEN + n + 1, Len(buf))
                  request == bincode_deserialize_words(request_bytes)
              IN IF request.ok THEN DecodeSome(request.item, rest)
                 ELSE DecodeErr("bincode", rest)

\* variant: a payload that does not deserialize yields the default value
ModbusDataCodec_decode_default(buf) ==
    IF Len(buf) < PREFIX_LEN THEN DecodeNone(buf)
    ELSE LET length == usize_try_from(u64_from_be_bytes(SubSeq(buf, 1, PREFIX_LEN))) IN
         IF ~length.ok THEN DecodeErr("TryFromIntError", buf)
         ELSE IF usize_lt(usize_of(Len(buf) - PREFIX_LEN), length.val) THEN DecodeNone(buf)
         ELSE LET n == usize_val(length.val)
                  request_bytes == SubSeq(buf, PREFIX_LEN + 1, PREFIX_LEN + n)
                  rest == SubSeq(buf, PREFIX_LEN + n + 1, Len(buf))
                  request == bincode_deserialize_words(request_bytes)
              IN IF request.ok THEN DecodeSome(request.item, rest)
                 ELSE DecodeSome(Data(<<>>), rest)

\* variant: the whole buffer is dropped once a frame has been taken
ModbusDataCodec_decode_clear(buf) ==
    IF Len(buf) < PREFIX_LEN THEN DecodeNone(buf)
    ELSE LET length == usize_try_from(u64_from_be_bytes(SubSeq(buf, 1, PREFIX_LEN))) IN
         IF ~length.ok THEN DecodeErr("TryFromIntError", buf)
         ELSE IF usize_lt(usize_of(Len(buf) - PREFIX_LEN), length.val) THEN DecodeNone(buf)
         ELSE LET n == usize_val(length.val)
                  request_bytes == SubSeq(buf, PREFIX_LEN + 1, PREFIX_LEN + n)
                  request == bincode_deserialize_words(request_bytes)
              IN IF request.ok THEN DecodeSome(request.item, <<>>)
                 ELSE DecodeErr("bincode", <<>>)

\* variant: a frame counts as complete only with a byte beyond it buffered
ModbusDataCodec_decode_strict(buf) ==
    IF Len(buf) < PREFIX_LEN THEN DecodeNone(buf)
    ELSE LET length == usize_try_from(u64_from_be_bytes(SubSeq(buf, 1, PREFIX_LEN))) IN
         IF ~length.ok THEN DecodeErr("TryFromIntError", buf)
         ELSE IF ~usize_lt(length.val, usize_of(Len(buf) - PREFIX_LEN)) THEN DecodeNone(buf)
         ELSE LET n == usize_val(length.val)
                  request_bytes == SubSeq(buf, PREFIX_LEN + 1, PREFIX_LEN + n)
                  rest == SubSeq(buf, PREFIX_LEN + n + 1, Len(buf))
                  request == bincode_deserialize_words(request_bytes)
              IN IF request.ok THEN DecodeSome(request.item, rest)
                 ELSE DecodeErr("bincode", rest)

\* ModbusDataCodec::decode
ModbusDataCodec_decode(buf) ==
    IF Len(buf) < PREFIX_LEN THEN DecodeNone(buf)
    ELSE LET length == usize_try_from(u64_from_be_bytes(SubSeq(buf, 1, PREFIX_LEN))) IN
         IF ~length.ok THEN DecodeErr("TryFromIntError", buf)
         ELSE IF usize_lt(usize_of(Len(buf) - PREFIX_LEN), length.val) THEN DecodeNone(buf)
         ELSE LET n == usize_val(length.val)
                  request_bytes == SubSeq(buf, PREFIX_LEN + 1, PREFIX_LEN + n)
                  rest == SubSeq(buf, PREFIX_LEN + n + 1, Len(buf))
                  request == bincode_deserialize_words(request_bytes)
              IN IF request.ok THEN DecodeSome(request.item, rest)
                 ELSE DecodeErr("bincode", rest)

\* variant: the prefix is written little-endian
ModbusDataCodec_encode_le(item, buf) ==
    LET serialized == bincode_serialize_words(item)
        length == Len(serialized)
    IN buf \o to_le_bytes(length, 8) \o serialized

\* ModbusDataCodec::encode
ModbusDataCodec_encode(item, buf) ==
    LET serialized == bincode_serialize_words(item)
        length == Len(serialized)
    IN buf \o to_be_bytes(length, 8) \o serialized

decode(c, buf) ==
    IF c = "Request" THEN ModbusRequestCodec_decode(buf) ELSE ModbusDataCodec_decode(buf)

encode(c, item, buf) ==
    IF c = "Request" THEN ModbusRequestCodec_encode(item, buf)
    ELSE ModbusDataCodec_encode(item, buf)

(***************************** framing steps ********************************)
Idle == [kind |-> "Idle", err |-> "none", item |-> NoItem, before |-> <<>>]

\* the peer of a connection that does not exist yet
NoPeer == [n |-> 0, cut |-> FALSE, closed |-> FALSE]

\* the driver's variables in the specifications that exercise a codec alone
NoDriver ==
    /\ pc = 0 /\ flushing = FALSE /\ outcome = "running"
    /\ wire_out = <<>> /\ inb = <<>> /\ peer = NoPeer /\ frames = <<>>
    /\ is_readable = FALSE /\ eof = FALSE

\* one encode call on the outbound buffer
Encode(m) ==
    /\ Len(sent) < MaxFrames
    /\ dst' = encode(codec, m, dst)
    /\ sent' = Append(sent, m)
    /\ UNCHANGED <<ptr_width, codec, pos, src, recv, last, hist, dvars>>

\* the stream carries the next k bytes into the decoder's buffer
Transfer(k) ==
    /\ pos + k <= Len(dst)
    /\ src' = src \o SubSeq(dst, pos + 1, pos + k)
    /\ pos' = pos + k
    /\ last' = Idle
    /\ UNCHANGED <<ptr_width, codec, dst, sent, recv, hist, dvars>>

\* one decode call on the inbound buffer
Decode ==
    LET r == decode(codec, src) IN
    /\ src' = r.rest
    /\ last' = [kind |-> r.kind, err |-> r.err, item |-> r.item, before |-> src]
    /\ recv' = IF r.kind = "Some" THEN Append(recv, r.item) ELSE recv
    /\ UNCHANGED <<ptr_width, codec, dst, pos, sent, hist, dvars>>

\* loopback: frames are encoded, carried in arbitrary chunks and decoded
InitLoop ==
    /\ NoDriver
    /\ ptr_width \in {32, 64}
    /\ codec \in {"Request", "Data"}
    /\ dst = <<>> /\ pos = 0 /\ src = <<>>
    /\ sent = <<>> /\ recv = <<>>
    /\ last = Idle /\ hist = <<>>

NextLoop ==
    \/ \E m \in (IF sent = <<>> THEN ItemsOf(codec) ELSE MoreItemsOf(codec)) : Encode(m)
    \/ \E k \in 1..(Len(dst) - pos) : Transfer(k)
    \/ Decode

SpecLoop == InitLoop /\ [][NextLoop]_vars

(***************************** loopback properties **************************)
serialize(c, m) ==
    IF c = "Request" THEN bincode_serialize_request(m) ELSE bincode_serialize_words(m)

IsPrefix(a, b) == Len(a) <= Len(b) /\ SubSeq(b, 1, Len(a)) = a

\* C1: decoding the buffer that holds exactly the encoding of one item v
\* (encoded into an empty buffer) returns v and leaves the buffer empty, for
\* every Request and every word sequence, the empty one included.
RoundTrip ==
    (Len(sent) = 1 /\ last.kind # "Idle" /\ last.before = dst) =>
        /\ last.kind = "Some"
        /\ last.item = sent[1]
        /\ recv = <<sent[1]>>
        /\ src = <<>>

RoundTripWitness ==
    /\ Len(sent) = 1 /\ last.kind = "Some" /\ last.before = dst
    /\ sent[1].t = "Data" /\ sent[1].words = <<>>

\* C2: under any chunking and any number of decode calls the items returned
\* so far are a prefix of the items encoded, and once every byte has been
\* carried over and decode reports NeedMoreBytes, all of them have been
\* returned, in order, each once.
FrameOrder ==
    /\ IsPrefix(recv, sent)
    /\ (pos = Len(dst) /\ last.kind = "None") => (recv = sent /\ src = <<>>)

FrameOrderWitness ==
    /\ Len(sent) = 2 /\ sent[1] # sent[2] /\ recv = sent
    /\ pos = Len(dst) /\ last.kind = "None"

\* C6: the outbound buffer is the concatenation, in order, of one frame per
\* encoded item: 8 bytes holding big-endian N, then exactly the N bytes of
\* the item's serialization.
RECURSIVE WellFormedFrames(_, _, _)
WellFormedFrames(c, b, ms) ==
    IF ms = <<>> THEN b = <<>>
    ELSE LET body == serialize(c, Head(ms))
             N == Len(body)
         IN /\ Len(b) >= PREFIX_LEN + N
            /\ \A i \in 1..5 : b[i] = 0
            /\ b[6] * 65536 + b[7] * 256 + b[8] = N
            /\ SubSeq(b, PREFIX_LEN + 1, PREFIX_LEN + N) = body
            /\ WellFormedFrames(c, SubSeq(b, PREFIX_LEN + N + 1, Len(b)), Tail(ms))

EncodedFramesWellFormed == WellFormedFrames(codec, dst, sent)

EncodedFramesWitness == Len(sent) >= 2 /\ Len(dst) >= 2 * PREFIX_LEN + 8

(***************************** arbitrary input ******************************)
\* Byte strings a peer may present: a length prefix, a body, a tail.
RawPrefixes ==
    {to_be_bytes(n, 8) : n \in {0, 1, 4, 8, 10, 12}}
        \cup {<<0, 0, 0, 1, 0, 0, 0, 0>>, <<0, 0, 0, 1, 0, 0, 0, 4>>,
              <<0, 0, 0, 0, 255, 255, 255, 250>>,
              <<255, 255, 255, 255, 255, 255, 255, 250>>,
              <<255, 255, 255, 255, 255, 255, 255, 255>>}

RawBodies ==
    {<<>>, <<7>>, <<0, 0, 0>>, <<255, 0, 0, 0>>, <<5, 0, 0, 0, 1>>,
     <<1, 0, 0, 1, 0, 0, 3, 0>>,
     bincode_serialize_request(Disconnect),
     bincode_serialize_request(ReadRequest("ReadCoils", 0, 3)),
     bincode_serialize_request(ReadRequest("ReadHoldingRegisters", 513, 16)) \o <<9>>,
     bincode_serialize_words(Data(<<>>)),
     bincode_serialize_words(Data(<<258>>)),
     bincode_serialize_words(Data(<<1, 65535>>)),
     <<5, 0, 0, 0, 0, 0, 0, 0, 1, 0>>,
     <<0, 0, 0, 0, 1, 0, 0, 0, 1, 0>>}

RawTails ==
    {<<>>, to_be_bytes(4, 8) \o bincode_serialize_request(Disconnect),
     to_be_bytes(8, 8) \o bincode_serialize_words(Data(<<>>))}

RawInputs == {p \o b \o t : p \in RawPrefixes, b \in RawBodies, t \in RawTails}

\* the peer's bytes arrive in arbitrary chunks and decode is called at will
InitRaw ==
    /\ NoDriver
    /\ ptr_width \in {32, 64}
    /\ codec \in {"Request", "Data"}
    /\ dst \in RawInputs
    /\ pos = 0 /\ src = <<>>
    /\ sent = <<>> /\ recv = <<>>
    /\ last = Idle /\ hist = <<>>

NextRaw ==
    \/ \E k \in 1..(Len(dst) - pos) : Transfer(k)
    \/ Decode

SpecRaw == InitRaw /\ [][NextRaw]_vars

\* the value N of a complete 8-byte prefix is at most k (k below 2^24)
PrefixAtMost(b, k) ==
    /\ \A i \in 1..5 : b[i] = 0
    /\ b[6] * 65536 + b[7] * 256 + b[8] <= k

\* b holds its first frame completely: 8 + N bytes or more
HoldsFrame(b) == Len(b) >= PREFIX_LEN /\ PrefixAtMost(b, Len(b) - PREFIX_LEN)

PayloadOf(b) == SubSeq(b, PREFIX_LEN + 1, PREFIX_LEN + b[6] * 65536 + b[7] * 256 + b[8])

\* the prefix of b is a u64 above usize::MAX of the build target
ExceedsUsize(b) == ptr_width = 32 /\ \E i \in 1..4 : b[i] # 0

\* C4: a decode call that reports NeedMoreBytes leaves the buffer exactly
\* as it was, with fewer than 8 bytes buffered or with a prefix whose N
\* bytes have not all arrived.
NeedMoreNonDestructive == last.kind = "None" => src = last.before

NeedMoreWitness ==
    /\ last.kind = "None" /\ Len(last.before) > PREFIX_LEN
    /\ ~HoldsFrame(last.before) /\ src = last.before

\* C5: decode returns an item only from a buffer that held 8 + N bytes or
\* more, N being the big-endian value of its first 8 bytes.
NoEarlyPayload == last.kind = "Some" => HoldsFrame(last.before)

NoEarlyPayloadWitness ==
    /\ last.kind = "Some" /\ Len(last.before) > PREFIX_LEN + 8 /\ src # <<>>

\* C7: a complete prefix whose value is above usize::MAX makes decode fail
\* with the conversion error: no item, no NeedMoreBytes.
LengthOverflowIsFatal ==
    (last.kind # "Idle" /\ Len(last.before) >= PREFIX_LEN /\ ExceedsUsize(last.before))
        => (last.kind = "Err" /\ last.err = "TryFromIntError")

LengthOverflowWitness ==
    /\ last.kind = "Err" /\ last.err = "TryFromIntError"
    /\ ExceedsUsize(last.before) /\ last.before[4] = 1 /\ last.before[8] = 4
    /\ Len(last.before) >= PREFIX_LEN + 4

\* the bytes start with a serialized value of the codec's item type
Deserializable(c, p) ==
    IF c = "Request"
    THEN /\ Len(p) >= 4
         /\ p[2] = 0 /\ p[3] = 0 /\ p[4] = 0
         /\ \E v \in DOMAIN VariantIndex :
                /\ VariantIndex[v] = p[1]
                /\ v # "Disconnect" => Len(p) >= 8
    ELSE /\ Len(p) >= 8
         /\ \A i \in 4..8 : p[i] = 0
         /\ Len(p) >= 8 + 2 * (p[1] + 256 * p[2] + 65536 * p[3])

\* C8: a complete frame whose payload does not deserialize makes decode
\* fail with the deserialization error, never return an item.
BadPayloadIsFatal ==
    (/\ last.kind # "Idle"
     /\ HoldsFrame(last.before)
     /\ ~Deserializable(codec, PayloadOf(last.before)))
        => (last.kind = "Err" /\ last.err = "bincode")

BadPayloadWitness ==
    /\ last.kind = "Err" /\ last.err = "bincode" /\ HoldsFrame(last.before)
    /\ Len(PayloadOf(last.before)) >= 8
    /\ ~Deserializable(codec, PayloadOf(last.before))

(***************************** byte-wise feed *******************************)
\* one more byte of the frame reaches the buffer and decode is called
FeedByte ==
    /\ pos < Len(dst)
    /\ LET buf == Append(src, dst[pos + 1])
           r == decode(codec, buf)
       IN /\ src' = r.rest
          /\ pos' = pos + 1
          /\ last' = [kind |-> r.kind, err |-> r.err, item |-> r.item, before |-> buf]
          /\ recv' = IF r.kind = "Some" THEN Append(recv, r.item) ELSE recv
          /\ hist' = Append(hist, r.kind)
    /\ UNCHANGED <<ptr_width, codec, dst, sent, dvars>>

InitByte ==
    /\ NoDriver
    /\ ptr_width \in {32, 64}
    /\ codec \in {"Request", "Data"}
    /\ \E m \in ItemsOf(codec) : dst = encode(codec, m, <<>>) /\ sent = <<m>>
    /\ pos = 0 /\ src = <<>> /\ recv = <<>>
    /\ last = Idle /\ hist = <<>>

NextByte == FeedByte

SpecByte == InitByte /\ [][NextByte]_vars

\* C3: fed one byte at a time with a decode call after each byte, a frame
\* yields NeedMoreBytes after every byte but the last, and after the last
\* byte exactly one item, the encoded one, with nothing left in the buffer.
ByteAtATime ==
    /\ \A i \in 1..Len(hist) : hist[i] = IF i < Len(dst) THEN "None" ELSE "Some"
    /\ pos < Len(dst) => recv = <<>>
    /\ pos = Len(dst) => (recv = sent /\ src = <<>>)

ByteAtATimeWitness ==
    /\ pos = Len(dst) /\ Len(hist) = Len(dst) /\ recv = sent
    /\ hist[Len(hist)] = "Some" /\ hist[Len(hist) - 1] = "None"

(***************************** connection driver ****************************)
\* variant: the third request is sent without waiting for the second reply
Program_pipelined ==
    <<[op |-> "send", item |-> ReadRequest("ReadHoldingRegisters", 0, 16)],
      [op |-> "next"],
      [op |-> "send", item |-> ReadRequest("ReadCoils", 0, 3)],
      [op |-> "send", item |-> ReadRequest("ReadDiscreteInputs", 0, 16)],
      [op |-> "next"],
      [op |-> "next"],
      [op |-> "send", item |-> ReadRequest("ReadInputRegisters", 0, 16)],
      [op |-> "next"],
      [op |-> "send", item |-> Disconnect]>>

\* variant: Disconnect is sent before the last reply is read
Program_early_disconnect ==
    <<[op |-> "send", item |-> ReadRequest("ReadHoldingRegisters", 0, 16)],
      [op |-> "next"],
      [op |-> "send", item |-> ReadRequest("ReadCoils", 0, 3)],
      [op |-> "next"],
      [op |-> "send", item |-> ReadRequest("ReadDiscreteInputs", 0, 16)],
      [op |-> "next"],
      [op |-> "send", item |-> ReadRequest("ReadInputRegisters", 0, 16)],
      [op |-> "send", item |-> Disconnect],
      [op |-> "next"]>>

\* the statements of main after the connection is made, in program order
Program ==
    <<[op |-> "send", item |-> ReadRequest("ReadHoldingRegisters", 0, 16)],
      [op |-> "next"],
      [op |-> "send", item |-> ReadRequest("ReadCoils", 0, 3)],
      [op |-> "next"],
      [op |-> "send", item |-> ReadRequest("ReadDiscreteInputs", 0, 16)],
      [op |-> "next"],
      [op |-> "send", item |-> ReadRequest("ReadInputRegisters", 0, 16)],
      [op |-> "next"],
      [op |-> "send", item |-> Disconnect]>>

Returned == Len(Program) + 1

At(op) == outcome = "running" /\ pc \in 1..Len(Program) /\ Program[pc].op = op

\* sizes a socket write or read of n available bytes may report
IoSizes(n) == {n} \cup {k \in {7} : k < n}

\* what the peer may send: replies, and a frame whose payload is no Vec<u16>
ReplyItems == {Data(<<>>), Data(<<7>>)}
BadFrame == to_be_bytes(4, 8) \o <<1, 0, 0, 0>>
BadItem == [t |-> "Bad"]
CutPoints == {3, 12}

\* TcpStream::connect(..).await? succeeds
Connect ==
    /\ pc = 0 /\ outcome = "running"
    /\ pc' = 1
    /\ UNCHANGED <<fvars, flushing, outcome, wire_out, inb, peer, frames, is_readable, eof>>

\* TcpStream::connect(..).await? fails: main returns the error
ConnectFail ==
    /\ pc = 0 /\ outcome = "running"
    /\ pc' = Returned /\ outcome' = "err"
    /\ UNCHANGED <<fvars, flushing, wire_out, inb, peer, frames, is_readable, eof>>

\* client_writer.send(item): the item is encoded into the write buffer
SendStart ==
    /\ At("send") /\ ~flushing
    /\ dst' = ModbusRequestCodec_encode(Program[pc].item, dst)
    /\ sent' = Append(sent, Program[pc].item)
    /\ flushing' = TRUE
    /\ UNCHANGED <<ptr_width, codec, pos, src, recv, last, hist>>
    /\ UNCHANGED <<pc, outcome, wire_out, inb, peer, frames, is_readable, eof>>

\* client_writer.send(item).await: the socket takes k bytes of the buffer;
\* send returns once the buffer is empty, and main moves on (or returns Ok
\* after its last statement)
SendWrite(k) ==
    /\ At("send") /\ flushing
    /\ k \in IoSizes(Len(dst))
    /\ wire_out' = wire_out \o SubSeq(dst, 1, k)
    /\ dst' = SubSeq(dst, k + 1, Len(dst))
    /\ IF k = Len(dst)
       THEN /\ flushing' = FALSE
            /\ pc' = pc + 1
            /\ outcome' = IF pc + 1 = Returned THEN "ok" ELSE "running"
       ELSE UNCHANGED <<flushing, pc, outcome>>
    /\ UNCHANGED <<ptr_width, codec, pos, src, sent, recv, last, hist>>
    /\ UNCHANGED <<inb, peer, frames, is_readable, eof>>

\* client_writer.send(item).await?: the write fails, main returns the error
SendFail ==
    /\ At("send") /\ flushing
    /\ pc' = Returned /\ outcome' = "err"
    /\ UNCHANGED <<fvars, flushing, wire_out, inb, peer, frames, is_readable, eof>>

\* Decoder::decode_eof (the trait's default) of ModbusDataCodec
ModbusDataCodec_decode_eof(buf) ==
    LET r == ModbusDataCodec_decode(buf) IN
    IF r.kind = "None" /\ buf # <<>> THEN DecodeErr("bytes remaining on stream", buf)
    ELSE r

\* variant: a decode error is skipped and main goes on to its next statement
NextDecode_continue ==
    /\ At("next") /\ is_readable
    /\ LET r == IF eof THEN ModbusDataCodec_decode_eof(src)
                ELSE ModbusDataCodec_decode(src)
       IN /\ src' = r.rest
          /\ last' = [kind |-> r.kind, err |-> r.err, item |-> r.item, before |-> src]
          /\ recv' = IF r.kind = "Some" THEN Append(recv, r.item) ELSE recv
          /\ is_readable' = (r.kind # "None")
          /\ pc' = CASE r.kind \in {"Some", "Err"} -> pc + 1
                     [] r.kind = "None" /\ ~eof -> pc
                     [] OTHER -> Returned
          /\ outcome' = CASE r.kind = "None" /\ eof -> "panic"
                          [] OTHER -> "running"
    /\ UNCHANGED <<ptr_width, codec, dst, pos, sent, hist>>
    /\ UNCHANGED <<flushing, wire_out, inb, peer, frames, eof>>

\* client_reader.next().await.unwrap()? with a readable buffer: one decode
\* call; an item ends the statement, NeedMoreBytes goes back to reading, an
\* error returns from main, and the end of the stream panics in unwrap
NextDecode ==
    /\ At("next") /\ is_readable
    /\ \E r \in {IF eof THEN ModbusDataCodec_decode_eof(src)
                   ELSE ModbusDataCodec_decode(src)} :
          /\ src' = r.rest
          /\ last' = [kind |-> r.kind, err |-> r.err, item |-> r.item, before |-> src]
          /\ recv' = IF r.kind = "Some" THEN Append(recv, r.item) ELSE recv
          /\ is_readable' = (r.kind = "Some")
          /\ pc' = CASE r.kind = "Some" -> pc + 1
                     [] r.kind = "None" /\ ~eof -> pc
                     [] OTHER -> Returned
          /\ outcome' = CASE r.kind = "Err" -> "err"
                          [] r.kind = "None" /\ eof -> "panic"
                          [] OTHER -> "running"
    /\ UNCHANGED <<ptr_width, codec, dst, pos, sent, hist>>
    /\ UNCHANGED <<flushing, wire_out, inb, peer, frames, eof>>

\* client_reader.next().await: the socket read returns k bytes
NextRead(k) ==
    /\ At("next") /\ ~is_readable
    /\ inb # <<>> /\ k \in IoSizes(Len(inb))
    /\ src' = src \o SubSeq(inb, 1, k)
    /\ inb' = SubSeq(inb, k + 1, Len(inb))
    /\ eof' = FALSE
    /\ is_readable' = TRUE
    /\ UNCHANGED <<ptr_width, codec, dst, pos, sent, recv, last, hist>>
    /\ UNCHANGED <<pc, flushing, outcome, wire_out, peer, frames>>

\* variant: a read that has nothing to return is taken as the end of the stream
NextEof_timeout ==
    /\ At("next") /\ ~is_readable
    /\ inb = <<>>
    /\ IF eof
       THEN pc' = Returned /\ outcome' = "panic" /\ UNCHANGED <<eof, is_readable>>
       ELSE eof' = TRUE /\ is_readable' = TRUE /\ UNCHANGED <<pc, outcome>>
    /\ UNCHANGED <<fvars, flushing, wire_out, inb, peer, frames>>

\* client_reader.next().await: the socket read returns 0 bytes
NextEof ==
    /\ At("next") /\ ~is_readable
    /\ inb = <<>> /\ peer.closed
    /\ IF eof
       THEN pc' = Returned /\ outcome' = "panic" /\ UNCHANGED <<eof, is_readable>>
       ELSE eof' = TRUE /\ is_readable' = TRUE /\ UNCHANGED <<pc, outcome>>
    /\ UNCHANGED <<fvars, flushing, wire_out, inb, peer, frames>>

\* client_reader.next().await.unwrap()?: the read fails, main returns the error
NextFail ==
    /\ At("next") /\ ~is_readable
    /\ pc' = Returned /\ outcome' = "err"
    /\ UNCHANGED <<fvars, flushing, wire_out, inb, peer, frames, is_readable, eof>>

PeerActive ==
    /\ outcome = "running" /\ pc >= 1
    /\ ~peer.cut /\ ~peer.closed

\* the peer sends one whole frame
PeerSend(bytes, it) ==
    /\ PeerActive /\ peer.n < MaxReplies
    /\ inb' = inb \o bytes
    /\ frames' = Append(frames, it)
    /\ peer' = [peer EXCEPT !.n = @ + 1]
    /\ UNCHANGED <<fvars, pc, flushing, outcome, wire_out, is_readable, eof>>

\* the peer sends the first k bytes of a frame and nothing after them
PeerCut(bytes, k) ==
    /\ PeerActive /\ peer.n < MaxReplies
    /\ k < Len(bytes)
    /\ inb' = inb \o SubSeq(bytes, 1, k)
    /\ peer' = [peer EXCEPT !.n = @ + 1, !.cut = TRUE]
    /\ UNCHANGED <<fvars, pc, flushing, outcome, wire_out, frames, is_readable, eof>>

\* the peer closes its half of the stream
PeerClose ==
    /\ outcome = "running" /\ pc >= 1 /\ ~peer.closed
    /\ peer' = [peer EXCEPT !.closed = TRUE]
    /\ UNCHANGED <<fvars, pc, flushing, outcome, wire_out, inb, frames, is_readable, eof>>

InitDriver ==
    /\ ptr_width = 64
    /\ codec = "Data"
    /\ dst = <<>> /\ pos = 0 /\ src = <<>>
    /\ sent = <<>> /\ recv = <<>>
    /\ last = Idle /\ hist = <<>>
    /\ NoDriver

NextDriver ==
    \/ Connect
    \/ ConnectFail
    \/ SendStart
    \/ \E k \in 1..Len(dst) : SendWrite(k)
    \/ SendFail
    \/ NextDecode
    \/ \E k \in 1..Len(inb) : NextRead(k)
    \/ NextEof
    \/ NextFail
    \/ \E it \in ReplyItems : PeerSend(ModbusDataCodec_encode(it, <<>>), it)
    \/ PeerSend(BadFrame, BadItem)
    \/ \E it \in ReplyItems, k \in CutPoints : PeerCut(ModbusDataCodec_encode(it, <<>>), k)
    \/ PeerClose

SpecDriver == InitDriver /\ [][NextDriver]_vars

(***************************** driver properties ****************************)
\* a step of the read half: a decode call, a socket read, or its failure
ReadStep == NextDecode \/ (\E k \in 1..Len(inb) : NextRead(k)) \/ NextEof \/ NextFail

\* C9: requests sent minus replies consumed is always 0 or 1; a request is
\* sent only when every earlier one has had its reply consumed; the read
\* half acts only while one request, fully written, is outstanding.
SingleOutstanding ==
    [][/\ Len(sent) - Len(recv) \in {0, 1}
       /\ Len(sent') - Len(recv') \in {0, 1}
       /\ sent' # sent => Len(recv) = Len(sent)
       /\ ReadStep => (Len(sent) = Len(recv) + 1 /\ dst = <<>> /\ ~flushing)]_vars

SingleOutstandingWitness ==
    /\ outcome = "running" /\ pc = 4 /\ ~is_readable
    /\ Len(sent) = 2 /\ Len(recv) = 1 /\ inb # <<>>

Script ==
    <<ReadRequest("ReadHoldingRegisters", 0, 16), ReadRequest("ReadCoils", 0, 3),
      ReadRequest("ReadDiscreteInputs", 0, 16), ReadRequest("ReadInputRegisters", 0, 16),
      Disconnect>>

\* C10: the requests sent are a prefix of the script, their frames are what
\* goes to the socket, one reply is consumed after each read request,
\* Disconnect goes out only after four replies, and once Disconnect has
\* been handed to send nothing more is sent, read or consumed.
ScriptOrder ==
    [][/\ IsPrefix(sent', Script)
       /\ WellFormedFrames("Request", wire_out' \o dst', sent')
       /\ Len(recv') \in {Len(sent') - 1, Len(sent')} \cap 0..4
       /\ Len(sent') = 5 => Len(recv') = 4
       /\ outcome' = "ok" => (Len(sent') = 5 /\ dst' = <<>>)
       /\ Len(sent) = 5 => (sent' = sent /\ recv' = recv /\ src' = src /\ ~ReadStep)]_vars

ScriptOrderWitness ==
    /\ outcome = "ok" /\ pc = Returned
    /\ sent = Script /\ Len(recv) = 4 /\ dst = <<>>


(***************************** end of stream and errors *********************)
\* main has ended on the end of the stream: the read half saw the stream
\* closed with no complete frame buffered
StreamExhausted ==
    /\ outcome \notin {"running", "ok"} /\ eof
    /\ \/ last.kind = "None"
       \/ last.kind = "Err" /\ last.err = "bytes remaining on stream"

\* C11: when the stream closes while a reply is awaited and no complete
\* frame is buffered (no byte at all, or part of a frame), main ends with an
\* error it returns, and no further request has been sent.
StreamClosedIsError ==
    StreamExhausted => (outcome = "err" /\ pc = Returned /\ dst = <<>>)

\* the part of C11 the code meets: a partial frame at the end of the stream
\* is returned as an error
PartialFrameAtEofIsError ==
    (StreamExhausted /\ last.before # <<>>) => (outcome = "err" /\ last.kind = "Err")

\* a step in which a write, a read or a decode call reports an error
ErrorStep ==
    \/ SendFail
    \/ NextFail
    \/ NextDecode /\ last'.kind = "Err"

\* C12: a step in which a write, a read or a decode call fails ends main at
\* once with the error returned; once main has ended no request is encoded
\* or written, nothing is read or consumed, and when it has ended in an error
\* Disconnect has been handed to send only if the failing step was its own
\* write.
ErrorsAreFatal ==
    [][/\ ErrorStep => (outcome' = "err" /\ pc' = Returned
                        /\ sent' = sent /\ wire_out' = wire_out /\ recv' = recv)
       /\ outcome # "running" =>
            UNCHANGED <<sent, dst, wire_out, src, inb, recv, pc, outcome>>
       /\ (outcome' = "err" /\ Disconnect \in {sent'[i] : i \in 1..Len(sent')})
            => (SendFail /\ Len(recv) = 4)]_vars

ErrorsAreFatalWitness ==
    /\ outcome = "err" /\ pc = Returned
    /\ last.kind = "Err" /\ last.err = "bincode"
    /\ Len(sent) = 2 /\ Len(recv) = 1 /\ inb # <<>>

(***************************** a session that goes well *********************)
\* The connection is made, no write or read fails, and the peer sends whole
\* reply frames and nothing else.  The runtime polls main whenever its
\* pending write or read can make progress, and the peer keeps sending while
\* it has replies to send: every step below is weakly fair.
MainStep ==
    \/ Connect
    \/ SendStart
    \/ \E k \in 1..Len(dst) : SendWrite(k)
    \/ NextDecode
    \/ \E k \in 1..Len(inb) : NextRead(k)

PeerReply == \E it \in ReplyItems : PeerSend(ModbusDataCodec_encode(it, <<>>), it)

NextLive == MainStep \/ PeerReply

\* main is one task: at most one of its steps is enabled at a time
SpecLive ==
    /\ InitDriver
    /\ [][NextLive]_vars
    /\ WF_vars(MainStep)
    /\ WF_vars(PeerReply)

\* C13: in a session that goes well main eventually returns Ok, and it has
\* returned Ok only with the whole script, Disconnect last, written to the
\* socket and four replies consumed.
DriverSucceeds ==
    /\ <>(outcome = "ok")
    /\ [](outcome = "ok" =>
            /\ sent = Script /\ dst = <<>> /\ Len(recv) = 4
            /\ WellFormedFrames("Request", wire_out, Script))

DriverSucceedsWitness ==
    /\ outcome = "ok" /\ sent = Script /\ recv = frames /\ Len(recv) = 4
    /\ recv[1] # recv[2]

(***************************** pending reads and writes *********************)
\* the read of next() is pending: no frame in the buffer, no byte to read,
\* and the stream still open
PendingRead == At("next") /\ ~is_readable /\ inb = <<>> /\ ~peer.closed

\* C14: while a read is pending main does not move unless the read fails;
\* main leaves a next() only with a reply consumed or by ending on a stream
\* failure or the end of the stream, and leaves a send() only with the whole
\* frame written or by ending on a write failure.
NoTimeout ==
    [][/\ PendingRead =>
            \/ UNCHANGED <<pc, outcome, flushing, src, recv, sent, dst, wire_out,
                           is_readable, eof, last>>
            \/ NextFail /\ outcome' = "err"
       /\ (At("next") /\ pc' # pc) =>
            \/ pc' = pc + 1 /\ last'.kind = "Some" /\ recv' = Append(recv, last'.item)
            \/ pc' = Returned /\ outcome' \in {"err", "panic"}
       /\ (At("send") /\ pc' # pc) =>
            \/ pc' = pc + 1 /\ flushing /\ dst' = <<>> /\ wire_out' = wire_out \o dst
            \/ pc' = Returned /\ outcome' = "err"]_vars

NoTimeoutWitness ==
    /\ PendingRead /\ peer.cut /\ src # <<>> /\ last.kind = "None"
    /\ Len(sent) = 3 /\ Len(recv) = 2

(***************************** what decode removes **************************)
\* the value N of the prefix of a buffer that holds its first frame
PrefixValue(b) == b[6] * 65536 + b[7] * 256 + b[8]

\* the bytes of b after its first frame
AfterFrame(b) == SubSeq(b, PREFIX_LEN + PrefixValue(b) + 1, Len(b))

\* C15: when decode returns an item, the buffer held a whole frame, the item
\* is the value serialized at the head of that frame's N payload bytes, and
\* what is left in the buffer is exactly the bytes that followed the first
\* 8 + N, unchanged and in order.
FrameConsumed ==
    last.kind = "Some" =>
        /\ HoldsFrame(last.before)
        /\ IsPrefix(serialize(codec, last.item), PayloadOf(last.before))
        /\ src = AfterFrame(last.before)
        /\ Len(src) = Len(last.before) - (PREFIX_LEN + PrefixValue(last.before))

FrameConsumedWitness ==
    /\ last.kind = "Some" /\ src \in RawTails /\ src # <<>>
    /\ PrefixValue(last.before) = 8

(***************************** the two codecs side by side ******************)
\* what a decode result says about the frame, apart from its payload
FramingOutcome(r) ==
    CASE r.kind = "None" -> "NeedMoreBytes"
      [] r.kind = "Err" /\ r.err = "TryFromIntError" -> "LengthError"
      [] OTHER -> "Frame"

SameFraming(b) ==
    LET q == ModbusRequestCodec_decode(b)
        d == ModbusDataCodec_decode(b)
    IN /\ FramingOutcome(q) = FramingOutcome(d)
       /\ q.rest = d.rest

EncodersSharePrefix ==
    \A r \in Requests, d \in DataItems :
        Len(bincode_serialize_request(r)) = Len(bincode_serialize_words(d)) =>
            SubSeq(ModbusRequestCodec_encode(r, <<>>), 1, PREFIX_LEN)
                = SubSeq(ModbusDataCodec_encode(d, <<>>), 1, PREFIX_LEN)

\* C16: on every buffer the two decoders agree on NeedMoreBytes, length
\* error or complete frame, and leave the same bytes in the buffer; for
\* items of equal serialized length the two encoders write the same prefix.
CodecsShareFraming ==
    /\ SameFraming(src)
    /\ SameFraming(last.before)
    /\ EncodersSharePrefix

CodecsShareFramingWitness ==
    /\ codec = "Data" /\ last.kind = "Err" /\ last.err = "bincode"
    /\ ModbusRequestCodec_decode(last.before).kind = "Some"
    /\ src # <<>> /\ src = ModbusRequestCodec_decode(last.before).rest

(***************************** replies by arrival order *********************)
\* the bytes of a frame the peer has sent
FrameOf(it) == IF it.t = "Bad" THEN BadFrame ELSE ModbusDataCodec_encode(it, <<>>)

RECURSIVE FramesFrom(_, _)
FramesFrom(fs, k) ==
    IF k > Len(fs) THEN <<>> ELSE FrameOf(fs[k]) \o FramesFrom(fs, k + 1)

\* C17: the k-th reply main consumes is the k-th frame of the inbound
\* stream, whenever its bytes arrived; while main runs, the frames not yet
\* consumed are, whole and in order, at the head of what the read buffer and
\* the socket hold, so a frame that arrived early is the next reply.
RepliesInArrivalOrder ==
    /\ Len(recv) <= Len(frames)
    /\ \A k \in 1..Len(recv) : frames[k].t = "Data" /\ recv[k] = frames[k]
    /\ outcome \in {"running", "ok"} =>
          Len(recv) = Cardinality({i \in 1..Len(Program) : i < pc /\ Program[i].op = "next"})
    /\ outcome \in {"running", "ok"} =>
          /\ IsPrefix(FramesFrom(frames, Len(recv) + 1), src \o inb)
          /\ ~peer.cut => src \o inb = FramesFrom(frames, Len(recv) + 1)

RepliesInArrivalOrderWitness ==
    /\ outcome = "running" /\ pc = 3 /\ ~flushing
    /\ Len(sent) = 1 /\ Len(recv) = 1 /\ Len(frames) = 2
    /\ frames[1] # frames[2]
    /\ inb = <<>> /\ src = FrameOf(frames[2])

(***************************** errors, empty frames, wrap-around ************)
\* C18: a decode call that fails on the length prefix leaves the buffer as
\* it was; one that fails on the payload has removed the frame's 8 + N
\* bytes from the head and left the bytes after them.
BufferAfterDecodeError ==
    /\ (last.kind = "Err" /\ last.err = "TryFromIntError") => src = last.before
    /\ (last.kind = "Err" /\ last.err = "bincode") =>
          /\ HoldsFrame(last.before)
          /\ src = AfterFrame(last.before)
          /\ Len(src) = Len(last.before) - PREFIX_LEN - PrefixValue(last.before)

BufferAfterDecodeErrorWitness ==
    /\ codec = "Request" /\ last.kind = "Err" /\ last.err = "bincode"
    /\ PrefixValue(last.before) = 4 /\ src \in RawTails /\ src # <<>>

\* the first 8 bytes of b are a prefix N = 0
ZeroPrefix(b) == Len(b) >= PREFIX_LEN /\ \A i \in 1..PREFIX_LEN : b[i] = 0

\* no item of either codec serializes to zero bytes
EncodersNeverEmitEmpty ==
    \A c \in {"Request", "Data"} : \A m \in ItemsOf(c) :
        /\ Len(serialize(c, m)) >= 1
        /\ ~ZeroPrefix(encode(c, m, <<>>))

\* C19: with 8 or more bytes buffered and a prefix N = 0, decode does not
\* report NeedMoreBytes: it removes the 8 prefix bytes and nothing else and
\* deserializes an empty payload, which fails for both item types; and no
\* encoder writes a prefix N = 0.
ZeroLengthFrame ==
    /\ (last.kind # "Idle" /\ ZeroPrefix(last.before)) =>
          /\ last.kind = "Err" /\ last.err = "bincode"
          /\ src = SubSeq(last.before, PREFIX_LEN + 1, Len(last.before))
    /\ EncodersNeverEmitEmpty

ZeroLengthFrameWitness ==
    /\ last.kind = "Err" /\ ZeroPrefix(last.before) /\ Len(last.before) = PREFIX_LEN
    /\ src = <<>>

\* the prefix of b is within 8 of usize::MAX of the build target
NearUsizeMax(b) ==
    /\ Len(b) >= PREFIX_LEN
    /\ b[8] >= 248 /\ \A i \in 5..7 : b[i] = 255
    /\ \A i \in 1..4 : b[i] = (IF ptr_width = 64 THEN 255 ELSE 0)

\* C20: decode reports NeedMoreBytes for every buffer shorter than 8 bytes
\* and for every buffer whose prefix fits usize and whose N bytes have not
\* all arrived, a prefix within 8 of usize::MAX included: no difference or
\* sum wraps around to make such a buffer pass for a complete frame.
NoWrapAround ==
    /\ (last.kind # "Idle" /\ Len(last.before) < PREFIX_LEN) =>
          (last.kind = "None" /\ src = last.before)
    /\ (/\ last.kind # "Idle" /\ Len(last.before) >= PREFIX_LEN
        /\ ~ExceedsUsize(last.before) /\ ~HoldsFrame(last.before)) =>
          (last.kind = "None" /\ src = last.before)

NoWrapAroundWitness ==
    /\ last.kind = "None" /\ NearUsizeMax(last.before)
    /\ Len(last.before) > PREFIX_LEN + 2

====
